---- MODULE Spec2Model ----
(***************************************************************************)
(* Model of the vault search modal (components/SearchModal.tsx): the       *)
(* matcher (normalize, fuzzyScore, buildSnippet), the content cache, the   *)
(* pool of 8 async workers over a shared cursor, and the debounce /        *)
(* generation logic of the search effect.                                  *)
(*                                                                         *)
(* Strings are sequences of one-character strings, indices are 0-based as  *)
(* in JavaScript.  Scores are kept exact by scaling them by ScoreScale     *)
(* (the content penalty is contentMatchIndex * 0.02 = contentMatchIndex/50)*)
(*                                                                         *)
(* One action is one macrotask of the renderer's event loop (a React       *)
(* commit with its effects, a timer callback, the settling of an IPC       *)
(* read) together with the microtasks it queues: async worker code runs    *)
(* without interruption between two awaits.                                *)
(***************************************************************************)
EXTENDS Integers, Sequences, FiniteSets, TLC

\* ------------------------------------------------------------------ bounds
\* Largest generation number the model allocates (searchIdRef is unbounded),
\* on the small vaults, on the big ones, on vaults 5 and 6, on vault 7 and on
\* vault 8.
MaxGen == 2
MaxGenBig == 1
MaxGenMatch == 2
MaxGenPool == 2
MaxGenLive == 2
\* Largest row the model moves the selection to with the arrow keys.
MaxSelected == 2
\* Longest query and longest target handed to fuzzyScore on its own.
MaxFuzzyQuery == 3
MaxFuzzyTarget == 4
\* Longest content and longest match handed to buildSnippet on its own.
MaxSnippetContent == 85
MaxSnippetMatch == 3

\* ------------------------------------------------------- program constants
MAX_RESULTS == 200
\* Mutant: one snippet more per file.
FourMatchesPerFile == 3 + 1
MAX_MATCHES_PER_FILE == 3
CONTEXT_RADIUS == 40
CONTENT_SEARCH_MIN_CHARS == 2
\* Mutant: a pool of nine workers.
PoolOfNine == 8 + 1
SEARCH_CONCURRENCY == 8
\* Scores are multiplied by 50 so that "contentMatchIndex * 0.02" is integral.
ScoreScale == 50

SKIP_EXTENSIONS ==
  { <<"p","n","g">>, <<"j","p","g">>, <<"j","p","e","g">>, <<"g","i","f">>,
    <<"p","d","f">>, <<"i","c","o">>, <<"s","v","g">>, <<"w","e","b","p">>,
    <<"m","p","4">>, <<"m","o","v">>, <<"a","v","i">>, <<"m","k","v">>,
    <<"z","i","p">>, <<"r","a","r">>, <<"7","z">>, <<"e","x","e">>,
    <<"d","l","l">> }

\* ---------------------------------------------------------------- strings
UpperLetters ==
  <<"A","B","C","D","E","F","G","H","I","J","K","L","M",
    "N","O","P","Q","R","S","T","U","V","W","X","Y","Z">>
LowerLetters ==
  <<"a","b","c","d","e","f","g","h","i","j","k","l","m",
    "n","o","p","q","r","s","t","u","v","w","x","y","z">>
Digits == <<"0","1","2","3","4","5","6","7","8","9">>

\* "const x = value; ...": the value is computed once and the rest of the
\* block, Rest(x), uses it.
Bind(value, Rest(_)) == CHOOSE r \in {Rest(x) : x \in {value}} : TRUE

MinOf(S) == CHOOSE x \in S : \A y \in S : x <= y
Min2(a, b) == IF a <= b THEN a ELSE b
Max2(a, b) == IF a >= b THEN a ELSE b

PosIn(c, tbl) == IF \E i \in 1..Len(tbl) : tbl[i] = c
                 THEN MinOf({i \in 1..Len(tbl) : tbl[i] = c}) ELSE 0

UpperSet == {UpperLetters[i] : i \in 1..Len(UpperLetters)}
LowerTable == [c \in UpperSet |-> LowerLetters[PosIn(c, UpperLetters)]]

\* String.prototype.toLowerCase on one character.
LowerCh(c) == IF c \in UpperSet THEN LowerTable[c] ELSE c

normalize(value) == [i \in 1..Len(value) |-> LowerCh(value[i])]

IsSpace(c) == c = " "

\* String.prototype.trim
RECURSIVE TrimLeft(_)
TrimLeft(s) == IF s # <<>> /\ IsSpace(Head(s)) THEN TrimLeft(Tail(s)) ELSE s
RECURSIVE TrimRight(_)
TrimRight(s) == IF s # <<>> /\ IsSpace(s[Len(s)])
                THEN TrimRight(SubSeq(s, 1, Len(s) - 1)) ELSE s
trim(s) == TrimRight(TrimLeft(s))

\* s.split(/\s+/).filter(Boolean): the maximal runs of non-space characters.
RECURSIVE SplitWs(_, _, _)
SplitWs(s, cur, acc) ==
  IF s = <<>> THEN (IF cur = <<>> THEN acc ELSE Append(acc, cur))
  ELSE IF IsSpace(Head(s))
       THEN SplitWs(Tail(s), <<>>, IF cur = <<>> THEN acc ELSE Append(acc, cur))
       ELSE SplitWs(Tail(s), Append(cur, Head(s)), acc)
Tokens(s) == SplitWs(s, <<>>, <<>>)

\* String.prototype.indexOf(q, from), 0-based, -1 when absent.
IndexOfFrom(t, q, from) ==
  LET c == {i \in from..(Len(t) - Len(q)) : SubSeq(t, i + 1, i + Len(q)) = q}
  IN  IF c = {} THEN -1 ELSE MinOf(c)
IndexOf(t, q) == IndexOfFrom(t, q, 0)
Includes(t, q) == IndexOf(t, q) >= 0

\* String.prototype.slice(start, end) for 0 <= start <= end <= length.
Slice(s, start, end) == SubSeq(s, start + 1, end)

\* file.name.split('.').pop()?.toLowerCase() || ''
RECURSIVE LastSegment(_, _)
LastSegment(s, cur) ==
  IF s = <<>> THEN cur
  ELSE IF Head(s) = "." THEN LastSegment(Tail(s), <<>>)
       ELSE LastSegment(Tail(s), Append(cur, Head(s)))
\* Mutant: the extension is compared as it is written.
ExtensionCaseSensitive(name) == LastSegment(name, <<>>)
Extension(name) == normalize(LastSegment(name, <<>>))

\* String.prototype.localeCompare under the default (root/en) collation, for
\* strings of spaces, '.', '/', digits and ASCII letters: primary order is
\* space < punctuation < digits < letters, letters compared without case;
\* strings equal at the primary level are ordered lower case before upper.
Alphabet ==
  {" ", ".", "/"} \cup {Digits[i] : i \in 1..Len(Digits)}
  \cup UpperSet \cup {LowerLetters[i] : i \in 1..Len(LowerLetters)}
RankTable ==
  [c \in Alphabet |->
     IF c = " " THEN 1
     ELSE IF c = "." THEN 2
     ELSE IF c = "/" THEN 3
     ELSE IF PosIn(c, Digits) > 0 THEN 10 + PosIn(c, Digits)
     ELSE 30 + PosIn(LowerCh(c), LowerLetters)]
PrimaryRank(c) == RankTable[c]
CaseRank(c) == IF c \in UpperSet THEN 1 ELSE 0

PrimaryKey(s) == [i \in 1..Len(s) |-> PrimaryRank(s[i])]
CaseKey(s) == [i \in 1..Len(s) |-> CaseRank(s[i])]

RECURSIVE LexCmp(_, _)
LexCmp(a, b) ==
  IF a = <<>> /\ b = <<>> THEN 0
  ELSE IF a = <<>> THEN -1
  ELSE IF b = <<>> THEN 1
  ELSE IF Head(a) < Head(b) THEN -1
  ELSE IF Head(a) > Head(b) THEN 1
  ELSE LexCmp(Tail(a), Tail(b))

localeCompare(a, b) ==
  IF LexCmp(PrimaryKey(a), PrimaryKey(b)) # 0
  THEN LexCmp(PrimaryKey(a), PrimaryKey(b))
  ELSE LexCmp(CaseKey(a), CaseKey(b))

\* ---------------------------------------------------------------- matcher
\* "return null" of fuzzyScore.
Null == -1

\* The for loop of fuzzyScore from position i (0-based) of the query.
RECURSIVE FuzzyLoop(_, _, _, _, _, _)
FuzzyLoop(query, target, i, score, tIndex, streak) ==
  IF i >= Len(query) THEN score
  ELSE Bind(IndexOfFrom(target, <<query[i + 1]>>, tIndex), LAMBDA found :
         IF found = -1 THEN Null
         ELSE IF found = tIndex
              THEN Bind(score + 10 + (streak + 1) * 2, LAMBDA sc :
                     FuzzyLoop(query, target, i + 1, sc, found + 1, streak + 1))
              ELSE Bind(score + Max2(1, 6 - (found - tIndex)), LAMBDA sc :
                     FuzzyLoop(query, target, i + 1, sc, found + 1, 0)))

\* Mutant: the null of the loop is not passed on.
fuzzyScoreNoNull(query, target) ==
  FuzzyLoop(query, target, 0, 0, 0, 0) + Max2(0, 30 - IndexOf(target, <<query[1]>>))

\* Lines 61-82.
fuzzyScore(query, target) ==
  Bind(FuzzyLoop(query, target, 0, 0, 0, 0), LAMBDA score :
    IF score = Null THEN Null
    ELSE score + Max2(0, 30 - IndexOf(target, <<query[1]>>)))

\* Mutant: the snippet stops where the match begins.
buildSnippetBeforeMatch(content, matchIndex, matchLength) ==
  LET start  == Max2(0, matchIndex - CONTEXT_RADIUS)
      prefix == IF start > 0 THEN <<".", ".", ".">> ELSE <<>>
      highlightStart == Len(prefix) + (matchIndex - start)
  IN  [text |-> prefix \o Slice(content, start, matchIndex),
       highlights |-> << [start |-> highlightStart,
                          end   |-> highlightStart + matchLength] >>]

\* Mutant: the highlight keeps the position the match has in the content.
buildSnippetAbsoluteHighlight(content, matchIndex, matchLength) ==
  LET start  == Max2(0, matchIndex - CONTEXT_RADIUS)
      end    == Min2(Len(content), matchIndex + matchLength + CONTEXT_RADIUS)
      prefix == IF start > 0 THEN <<".", ".", ".">> ELSE <<>>
      suffix == IF end < Len(content) THEN <<".", ".", ".">> ELSE <<>>
  IN  [text |-> prefix \o Slice(content, start, end) \o suffix,
       highlights |-> << [start |-> matchIndex, end |-> matchIndex + matchLength] >>]

\* Lines 84-95.
buildSnippet(content, matchIndex, matchLength) ==
  LET start  == Max2(0, matchIndex - CONTEXT_RADIUS)
      end    == Min2(Len(content), matchIndex + matchLength + CONTEXT_RADIUS)
      prefix == IF start > 0 THEN <<".", ".", ".">> ELSE <<>>
      suffix == IF end < Len(content) THEN <<".", ".", ".">> ELSE <<>>
      highlightStart == Len(prefix) + (matchIndex - start)
  IN  [text |-> prefix \o Slice(content, start, end) \o suffix,
       highlights |-> << [start |-> highlightStart,
                          end   |-> highlightStart + matchLength] >>]

\* ------------------------------------------------------------- environment
\* The vaults the file tree can hold: flattenFiles(fileStructure) of each, and
\* what readFileContent returns for each path when the read succeeds.
File(name, dir) == [name |-> name, path |-> dir \o <<"/">> \o name]

\* Vault 1: two files of the same name whose contents differ only in case,
\* and an image below a directory "ab".  Vault 2: one file "aXb".
\* Vaults 3 and 4: BigCount(v) files named "ab<nnn>" or "xab<nnn>" in an order
\* that is not the ranking order, and one file found through its content.
\* Vault 5: a file found by its name ("Tab"), one by its path ("ab/n"), one
\* whose name only fuzzy-matches "ab" and whose content holds it ("r/aYb"),
\* and one found by its content alone ("q/m").
\* Vault 6: a file whose name fuzzy-matches "abcde f" and holds both tokens,
\* one whose content holds the two tokens apart ("q/t") and an empty file
\* ("q/e").
\* Vault 7: ten files, more files to read than there are workers: a file
\* named "a b c", eight files "p/1" .. "p/8" that cannot be read, and "p/k"
\* whose content is "a b c".
\* Vault 8: a file found by its name ("Tab") and two files to read, one whose
\* content holds "ab" ("q/m") and an empty one ("q/e").
SmallVaults == {1, 2}
BigVaults == {3, 4}
MatchVaults == {5, 6}
PoolVaults == {7}
LiveVaults == {8}

BigCount(v) == IF v = 3 THEN MAX_RESULTS + 3 ELSE MAX_RESULTS - 50

BigFile(i) ==
  LET n == (i * 37) % 211
  IN  File((IF i % 3 = 0 THEN <<"x">> ELSE <<>>) \o <<"a", "b">>
           \o << Digits[(n \div 100) + 1], Digits[((n \div 10) % 10) + 1],
                 Digits[(n % 10) + 1] >>,
           <<"d">>)

FilesOf(v) ==
  CASE v = 1 -> << File(<<"n">>, <<"a">>),
                   File(<<"n">>, <<"q">>),
                   File(<<"c",".","P","N","G">>, <<"a","b">>) >>
    [] v = 2 -> << File(<<"a","X","b">>, <<"r">>) >>
    [] v \in BigVaults ->
         [i \in 1..BigCount(v) |-> BigFile(i)] \o << File(<<"m">>, <<"q">>) >>
    [] v = 5 -> << File(<<"T","a","b">>, <<"d">>),
                   File(<<"n">>, <<"a","b">>),
                   File(<<"a","Y","b">>, <<"r">>),
                   File(<<"m">>, <<"q">>) >>
    [] v = 7 -> << File(<<"a"," ","b"," ","c">>, <<"p">>) >>
                \o [i \in 1..SEARCH_CONCURRENCY |-> File(<<Digits[i + 1]>>, <<"p">>)]
                \o << File(<<"k">>, <<"p">>) >>
    [] v = 8 -> << File(<<"T","a","b">>, <<"d">>),
                   File(<<"m">>, <<"q">>),
                   File(<<"e">>, <<"q">>) >>
    [] v = 6 -> << File(<<"a","b","c","d","e","x"," ","f">>, <<"d">>),
                   File(<<"t">>, <<"q">>),
                   File(<<"e">>, <<"q">>) >>

Disk(path) ==
  CASE path = <<"a","/","n">> -> <<"x","b"," ","A">>
    [] path = <<"q","/","n">> -> <<"x","B"," ","a">>
    [] path = <<"r","/","a","X","b">> -> <<"a"," ","A">>
    [] path = <<"q","/","m">> -> <<"x","A","b">>
    [] path = <<"r","/","a","Y","b">> -> <<"c","A","b">>
    [] path = <<"q","/","e">> -> <<>>
    [] path = <<"p","/","k">> -> <<"a"," ","b"," ","c">>
    [] path = <<"q","/","t">> -> <<"f"," ","a","b","c","d","e">>
    [] OTHER -> <<"z">>

\* Whether readFileContent can return the content of the path: the files
\* "p/1" .. "p/8" of vault 7 cannot be read, every read of them fails.
Readable(path) ==
  ~(Len(path) = 3 /\ path[1] = "p" /\ path[3] \in {Digits[i] : i \in 1..Len(Digits)})

\* The values the user can type into the search input while the file tree
\* holds vault v.
QueriesOf(v) ==
  IF v \in SmallVaults THEN { <<>>, <<" ">>, <<"a">>, <<"b"," ","A">> }
  ELSE IF v = 6 THEN { <<>>, <<"a","b","c","d","e"," ","F">> }
  ELSE IF v \in PoolVaults THEN { <<"a"," ","B"," ","c">> }
  ELSE IF v \in LiveVaults THEN { <<"A","b">> }
  ELSE { <<>>, <<"A","b">> }

GenBound(v) ==
  IF v \in BigVaults THEN MaxGenBig
  ELSE IF v \in MatchVaults THEN MaxGenMatch
  ELSE IF v \in PoolVaults THEN MaxGenPool
  ELSE IF v \in LiveVaults THEN MaxGenLive
  ELSE MaxGen

\* The other vault the file tree can change to.
\* (vaults 5, 6, 7 and 8 are reloaded: the same files in a new fileStructure).
OtherVault(v) ==
  CASE v = 1 -> 2 [] v = 2 -> 1 [] v = 3 -> 4 [] v = 4 -> 3 [] v = 5 -> 5 [] v = 6 -> 6
    [] v = 7 -> 7 [] v = 8 -> 8

\* ------------------------------------------------------ per-file algorithm
\* Mutant: a name that contains the query is worth 300 instead of 1000.
NamePathScoreNameLow(file, normalizedQuery) ==
  LET nameLower == normalize(file.name)
      pathLower == normalize(file.path)
  IN  IF Includes(nameLower, normalizedQuery)
      THEN [score |-> ScoreScale * (300 - Min2(200, IndexOf(nameLower, normalizedQuery) * 5)),
            matchType |-> "name"]
      ELSE IF Includes(pathLower, normalizedQuery)
      THEN [score |-> ScoreScale * (700 - Min2(200, IndexOf(pathLower, normalizedQuery) * 2)),
            matchType |-> "path"]
      ELSE LET fuzzy == fuzzyScore(normalizedQuery, nameLower)
           IN  IF fuzzy # Null /\ fuzzy # 0
               THEN [score |-> ScoreScale * (400 + fuzzy), matchType |-> "name"]
               ELSE [score |-> 0, matchType |-> "content"]

\* Lines 195-218: the score and matchType a file gets from its name and path.
NamePathScore(file, normalizedQuery) ==
  LET nameLower == normalize(file.name)
      pathLower == normalize(file.path)
  IN  IF Includes(nameLower, normalizedQuery)
      THEN [score |-> ScoreScale * (1000 - Min2(200, IndexOf(nameLower, normalizedQuery) * 5)),
            matchType |-> "name"]
      ELSE IF Includes(pathLower, normalizedQuery)
      THEN [score |-> ScoreScale * (700 - Min2(200, IndexOf(pathLower, normalizedQuery) * 2)),
            matchType |-> "path"]
      ELSE Bind(fuzzyScore(normalizedQuery, nameLower), LAMBDA fuzzy :
             IF fuzzy # Null /\ fuzzy # 0
             THEN [score |-> ScoreScale * (400 + fuzzy), matchType |-> "name"]
             ELSE [score |-> 0, matchType |-> "content"])

\* Lines 199-200: every token occurs in the name or in the path.
namePathCoversAll(file, tokens) ==
  \A i \in 1..Len(tokens) :
     \/ Includes(normalize(file.name), tokens[i])
     \/ Includes(normalize(file.path), tokens[i])

\* Lines 220-227: the result pushed for a file name match.
FilenameResult(file, np) ==
  [path |-> file.path, name |-> file.name, score |-> np.score,
   matches |-> << [text |-> <<"Filename match">>, highlights |-> <<>>] >>,
   matchType |-> np.matchType]

\* Lines 254-261: the loop over the tokens, from token i on.
RECURSIVE TokenLoop(_, _, _, _)
TokenLoop(acc, content, tokens, i) ==
  IF i > Len(tokens) \/ Len(acc.matches) >= MAX_MATCHES_PER_FILE THEN acc
  ELSE Bind(IndexOf(normalize(content), tokens[i]), LAMBDA tokenIndex :
         IF tokenIndex >= 0
         THEN Bind([matches |-> Append(acc.matches,
                                  buildSnippet(content, tokenIndex, Len(tokens[i]))),
                    score |-> acc.score + ScoreScale * 30],
                   LAMBDA next : TokenLoop(next, content, tokens, i + 1))
         ELSE TokenLoop(acc, content, tokens, i + 1))

\* Mutant: one token in the content is enough.
someTokenInContent(content, tokens) ==
  \E i \in 1..Len(tokens) : Includes(normalize(content), tokens[i])

\* Line 244: every token occurs in the lowercased content.
tokensInContent(content, tokens) ==
  \A i \in 1..Len(tokens) : Includes(normalize(content), tokens[i])

\* Lines 247-274: the result pushed for a file whose content holds every token
\* (np is the score and matchType left by the name/path phase).
ContentResult(file, content, normalizedQuery, tokens, np) ==
  Bind(IndexOf(normalize(content), normalizedQuery), LAMBDA contentMatchIndex :
  Bind(IF contentMatchIndex >= 0
       THEN [matches |-> << buildSnippet(content, contentMatchIndex,
                                         Len(normalizedQuery)) >>,
             score |-> np.score + ScoreScale * 300
                       - Min2(ScoreScale * 200, contentMatchIndex)]
       ELSE [matches |-> <<>>, score |-> np.score], LAMBDA a0 :
  Bind(TokenLoop(a0, content, tokens, 1), LAMBDA a1 :
  Bind(IF Len(a1.matches) = 0
       THEN [matches |-> << [text |-> <<"Content match">>, highlights |-> <<>>] >>,
             score |-> a1.score + ScoreScale * 50]
       ELSE a1, LAMBDA a2 :
    [path |-> file.path, name |-> file.name, score |-> a2.score,
     matches |-> a2.matches, matchType |-> np.matchType]))))

\* Mutant: the comparator orders by score ascending.
CompareScoreAscending(a, b) ==
  IF a.score - b.score # 0 THEN a.score - b.score
  ELSE localeCompare(a.name, b.name)

\* Line 283: the comparator handed to Array.prototype.sort.
Compare(a, b) ==
  IF b.score - a.score # 0 THEN b.score - a.score
  ELSE localeCompare(a.name, b.name)

\* Array.prototype.sort is stable: it yields the order obtained by inserting
\* the elements one by one, each after the elements that do not compare
\* greater.  UpperBound finds that place in a sorted prefix by bisection
\* (the number of its elements among the first hi that do not compare
\* greater than x, given that the first lo do not).
RECURSIVE UpperBound(_, _, _, _)
UpperBound(sorted, x, lo, hi) ==
  IF lo >= hi THEN lo
  ELSE LET mid == (lo + hi) \div 2
       IN  IF Compare(sorted[mid + 1], x) <= 0
           THEN UpperBound(sorted, x, mid + 1, hi)
           ELSE UpperBound(sorted, x, lo, mid)

InsertSorted(sorted, x) ==
  LET k == UpperBound(sorted, x, 0, Len(sorted))
  IN  SubSeq(sorted, 1, k) \o <<x>> \o SubSeq(sorted, k + 1, Len(sorted))

\* Inserts buf[lo..hi] into acc, in that order.
RECURSIVE SortRange(_, _, _, _)
SortRange(acc, buf, lo, hi) ==
  IF lo > hi THEN acc
  ELSE IF lo = hi THEN Bind(acc, LAMBDA sorted : InsertSorted(sorted, buf[lo]))
  ELSE Bind(SortRange(acc, buf, lo, (lo + hi) \div 2), LAMBDA left :
         SortRange(left, buf, ((lo + hi) \div 2) + 1, hi))

\* Lines 282-284: resultsBuffer.sort(...).slice(0, MAX_RESULTS).
SortAndSlice(buf) ==
  LET all == SortRange(<<>>, buf, 1, Len(buf))
  IN  SubSeq(all, 1, Min2(Len(all), MAX_RESULTS))

\* ------------------------------------------------------------------- state
VARIABLES
  query,         \* useState: the text of the search input
  isOpen,        \* prop: the modal is shown
  vault,         \* the file tree in the store; files = FilesOf(vault)
  results,       \* useState: the emitted result list
  isSearching,   \* useState: the searching flag
  progress,      \* useState: {scanned, total}
  selectedIndex, \* useState: the highlighted row
  searchIdRef,   \* useRef: the current generation
  contentCache,  \* useRef: Map path -> content
  timers,        \* pending setTimeout handles (a handle is its searchId)
  cleanupTimer,  \* the timeoutId the last effect run's cleanup will clear, 0 if none
  sessions,      \* one record per allocated searchId: the closure of the effect run
  lastEmit,      \* history: the session that produced `results`, its buffer, the
                 \* indices whose read failed, and whether the cache was kept since
  lastWrite,     \* history: the session whose code ran in the last step, the
                 \* pieces of visible state it set, the reads it issued (and
                 \* whether the cache held the path), the files it was served
                 \* from the cache and the files whose read failed
  staleCached,   \* history: the cached paths whose content comes from a read
                 \* issued before the latest clearing of the cache
  fuzzyCall,     \* a call of fuzzyScore: its arguments and what it returned
  snippetCall    \* a call of buildSnippet: its arguments and what it returned

vars == <<query, isOpen, vault, results, isSearching, progress, selectedIndex,
          searchIdRef, contentCache, timers, cleanupTimer, sessions, lastEmit,
          lastWrite, staleCached, fuzzyCall, snippetCall>>

Workers == 1..SEARCH_CONCURRENCY

NoWrite == [gen |-> 0, fields |-> {}, reads |-> {}, hits |-> {}, failures |-> {}]
\* No call of fuzzyScore is being looked at.
NoCall == [query |-> <<>>, target |-> <<>>, returned |-> FALSE, result |-> 0]

\* No call of buildSnippet is being looked at.
NoSnippet == [text |-> <<>>, highlights |-> <<>>]
NoSnippetCall ==
  [content |-> <<>>, matchIndex |-> 0, matchLength |-> 0, returned |-> FALSE,
   result |-> NoSnippet]

NoEmit == [gen |-> 0, query |-> <<>>, vault |-> 0, buffer |-> <<>>, failed |-> {},
           unreturned |-> 0, cacheKept |-> FALSE, claimed |-> <<>>,
           progressLog |-> <<>>]

\* Map.prototype.get / set on the content cache.
CacheHas(cache, path) == path \in DOMAIN cache
CacheSet(cache, path, content) ==
  [p \in (DOMAIN cache) \cup {path} |-> IF p = path THEN content ELSE cache[p]]

\* Line 234, "if (!content)": undefined and the empty string are both falsy.
CacheMiss(cache, path) == ~CacheHas(cache, path) \/ cache[path] = <<>>

\* The closure created by one run of the search effect with a non-empty query.
NewSession(q, v) ==
  [query |-> normalize(trim(q)), vault |-> v, status |-> "debouncing",
   resultsBuffer |-> <<>>, scanned |-> 0, nextIndex |-> 0,
   workers |-> [w \in Workers |-> [pc |-> "idle", idx |-> 0, old |-> FALSE]],
   emitted |-> 0, failed |-> {}, rejected |-> FALSE, claimed |-> <<>>,
   progressLog |-> <<>>]

\* A closure nothing references any more: only its outcome is remembered.
Retired(s, status) ==
  [NewSession(<<>>, 0) EXCEPT !.status = status, !.emitted = s.emitted]

\* Mutant: the content is searched whatever the length of the query.
shouldSearchContentAlways(normalizedQuery) == TRUE

shouldSearchContent(normalizedQuery) == Len(normalizedQuery) >= CONTENT_SEARCH_MIN_CHARS

\* Mutant: the worker loop has no generation check.
WorkerNeverStale(current, searchId) == FALSE

\* Line 184: the worker's generation check.
WorkerStale(current, searchId) == current # searchId

\* Mutant: the final list is emitted without the generation check.
CompletionNeverStale(current, searchId) == FALSE

\* Line 280: the generation check before the final list is emitted.
CompletionStale(current, searchId) == current # searchId

\* Mutant: the progress is reported after every file.
ProgressDueAlways(scanned) == TRUE

\* Line 188: the progress is reported when the count is a multiple of 10.
ProgressDue(scanned) == scanned % 10 = 0

\* Mutant: the cursor advances by two.
nextFileSkips(nextIndex) == [idx |-> nextIndex, nextIndex |-> nextIndex + 2]

\* Lines 174-178: nextFile returns the cursor and advances it by one.
nextFile(nextIndex) == [idx |-> nextIndex, nextIndex |-> nextIndex + 1]

\* Mutant: a worker that is through with its loop never returns.
WorkerNeverReturns(ctx, w) == ctx

\* A context threads what synchronous worker code changes: the session's
\* closure (s), the visible state and the visible fields set so far.
WorkerDone(ctx, w) ==
  [ctx EXCEPT !.s.workers[w] = [pc |-> "done", idx |-> 0, old |-> FALSE]]

\* Lines 182-275: one pass of worker w of session g through the body of its
\* while loop; the worker stays at "run" when the pass ends in a continue.
WorkerPass(ctx, w, g, current, cache) ==
  LET s     == ctx.s
      files == FilesOf(s.vault)
      idx   == nextFile(s.nextIndex).idx
      c1    == [ctx EXCEPT !.s.nextIndex = nextFile(s.nextIndex).nextIndex,
                           !.s.claimed = Append(@, idx)]
  IN
  IF idx >= Len(files) THEN WorkerDone(c1, w)
  ELSE IF WorkerStale(current, g) THEN WorkerDone(c1, w)
  ELSE
    LET file    == files[idx + 1]
        scanned == s.scanned + 1
        c2 == IF ProgressDue(scanned)
              THEN [c1 EXCEPT !.s.scanned = scanned,
                              !.progress = [scanned |-> scanned, total |-> Len(files)],
                              !.s.progressLog = Append(@, [scanned |-> scanned,
                                                           total   |-> Len(files)]),
                              !.wrote = @ \cup {"progress"}]
              ELSE [c1 EXCEPT !.s.scanned = scanned]
        tokens == Tokens(s.query)
        np == NamePathScore(file, s.query)
    IN
    IF Extension(file.name) \in SKIP_EXTENSIONS THEN c2
    ELSE Bind(np, LAMBDA score :
    IF namePathCoversAll(file, tokens) /\ score.score > 0
    THEN [c2 EXCEPT !.s.resultsBuffer = Append(@, FilenameResult(file, score))]
    ELSE IF ~shouldSearchContent(s.query) THEN c2
    ELSE IF CacheMiss(cache, file.path)
    THEN [c2 EXCEPT !.s.workers[w] = [pc |-> "await", idx |-> idx, old |-> FALSE],
                    !.reads = @ \cup {[file |-> file, query |-> s.query,
                                       cached |-> CacheHas(cache, file.path)]}]
    ELSE LET c3 == [c2 EXCEPT !.hits = @ \cup {[file |-> file, query |-> s.query]}]
         IN  IF ~tokensInContent(cache[file.path], tokens) THEN c3
             ELSE [c3 EXCEPT !.s.resultsBuffer =
                      Append(@, ContentResult(file, cache[file.path], s.query, tokens,
                                              score))])

\* Up to n passes of the while loop of worker w, stopping once it has
\* returned or awaits a read.
RECURSIVE WorkerPasses(_, _, _, _, _, _)
WorkerPasses(ctx, w, g, current, cache, n) ==
  IF n <= 1
  THEN (IF ctx.s.workers[w].pc = "run" THEN WorkerPass(ctx, w, g, current, cache)
        ELSE ctx)
  ELSE CHOOSE r \in {IF half.s.workers[w].pc = "run"
                      THEN WorkerPasses(half, w, g, current, cache, n - (n \div 2))
                      ELSE half :
                      half \in {WorkerPasses(ctx, w, g, current, cache, n \div 2)}} : TRUE

\* Lines 181-275: worker w runs its while loop until it returns or reaches
\* the await of line 236 (at most one pass per unclaimed index, and one more).
WorkerLoop(ctx, w, g, current, cache) ==
  CHOOSE r \in
    {WorkerPasses([c EXCEPT !.s.workers[w] = [pc |-> "run", idx |-> 0, old |-> FALSE]],
                  w, g, current, cache,
                  Max2(1, Len(FilesOf(c.s.vault)) - c.s.nextIndex + 1)) : c \in {ctx}} : TRUE

\* Lines 236-275 after the await: the read of worker w settled with `content`.
AfterRead(ctx, w, g, current, cache, content) ==
  LET s      == ctx.s
      file   == FilesOf(s.vault)[s.workers[w].idx + 1]
      tokens == Tokens(s.query)
      np     == NamePathScore(file, s.query)
  IN  IF ~tokensInContent(content, tokens)
      THEN WorkerLoop(ctx, w, g, current, cache)
      ELSE Bind(ContentResult(file, content, s.query, tokens, np), LAMBDA result :
             WorkerLoop([ctx EXCEPT !.s.resultsBuffer = Append(@, result)],
                        w, g, current, cache))

\* Mutant: no catch block; the error escapes the worker and rejects runSearch.
AfterReadErrorThrows(ctx, w, g, current, cache) ==
  [WorkerDone(ctx, w) EXCEPT !.s.rejected = TRUE,
                             !.s.failed = @ \cup {ctx.s.workers[w].idx}]

\* Mutant: the catch block calls readFileContent for the same file again.
AfterReadErrorRetries(ctx, w, g, current, cache) ==
  LET file == FilesOf(ctx.s.vault)[ctx.s.workers[w].idx + 1]
  IN  [ctx EXCEPT !.s.failed = @ \cup {ctx.s.workers[w].idx},
                  !.failures = @ \cup {[file |-> file, query |-> ctx.s.query]},
                  !.reads = @ \cup {[file |-> file, query |-> ctx.s.query,
                                     cached |-> CacheHas(cache, file.path)]}]

\* Lines 238-240: the catch block; the worker goes on with the next index.
AfterReadError(ctx, w, g, current, cache) ==
  LET file == FilesOf(ctx.s.vault)[ctx.s.workers[w].idx + 1]
  IN  WorkerLoop([ctx EXCEPT !.s.failed = @ \cup {ctx.s.workers[w].idx},
                             !.failures = @ \cup {[file |-> file, query |-> ctx.s.query]}],
                 w, g, current, cache)

\* Line 278: Array.from({length: 8}, () => worker()) calls the workers in turn.
RECURSIVE StartWorkers(_, _, _, _, _)
StartWorkers(ctx, w, g, current, cache) ==
  IF w > SEARCH_CONCURRENCY THEN ctx
  ELSE StartWorkers(WorkerLoop(ctx, w, g, current, cache), w + 1, g, current, cache)

\* Mutant: the code after Promise.all runs as soon as one worker has returned.
AnyReturned(s) == \E w \in Workers : s.workers[w].pc = "done"

\* Line 278: await Promise.all(...) resumes once every worker has returned.
AllReturned(s) == \A w \in Workers : s.workers[w].pc = "done"

\* Lines 280-289: the code after "await Promise.all", run once every worker
\* has returned.
Complete(ctx, g, current) ==
  IF ~AllReturned(ctx.s) THEN ctx
  ELSE IF ctx.s.rejected THEN [ctx EXCEPT !.s = Retired(ctx.s, "rejected")]
  ELSE IF CompletionStale(current, g) THEN [ctx EXCEPT !.s = Retired(ctx.s, "stale")]
  ELSE [ctx EXCEPT !.s = [Retired(ctx.s, "completed") EXCEPT !.emitted = @ + 1],
                   !.lastEmit = [gen |-> g, query |-> ctx.s.query, vault |-> ctx.s.vault,
                                 buffer |-> ctx.s.resultsBuffer, failed |-> ctx.s.failed,
                                 unreturned |-> Cardinality({w \in Workers :
                                                   ctx.s.workers[w].pc # "done"}),
                                 cacheKept |-> TRUE, claimed |-> ctx.s.claimed,
                                 progressLog |->
                                   Append(ctx.s.progressLog,
                                          [scanned |-> Len(FilesOf(ctx.s.vault)),
                                           total   |-> Len(FilesOf(ctx.s.vault))])],
                   !.results = SortAndSlice(ctx.s.resultsBuffer),
                   !.selectedIndex = 0,
                   !.isSearching = FALSE,
                   !.progress = [scanned |-> Len(FilesOf(ctx.s.vault)),
                                 total   |-> Len(FilesOf(ctx.s.vault))],
                   !.wrote = @ \cup {"results", "selectedIndex", "isSearching", "progress"}]

Context(g) ==
  [s |-> sessions[g], results |-> results, selectedIndex |-> selectedIndex,
   isSearching |-> isSearching, progress |-> progress, lastEmit |-> lastEmit,
   wrote |-> {}, reads |-> {}, hits |-> {}, failures |-> {}]

\* The state after a step in which code of session g ran and left context ctx.
Commit(g, ctx) ==
  /\ sessions' = [sessions EXCEPT ![g] = ctx.s]
  /\ results' = ctx.results
  /\ selectedIndex' = ctx.selectedIndex
  /\ isSearching' = ctx.isSearching
  /\ progress' = ctx.progress
  /\ lastEmit' = ctx.lastEmit
  /\ lastWrite' = [gen |-> g, fields |-> ctx.wrote, reads |-> ctx.reads,
                   hits |-> ctx.hits, failures |-> ctx.failures]

\* ------------------------------------------------------------------ effect
\* Mutant: the cleanup does not clear the timer.
CleanupNothing(ts, timeoutId) == ts

\* Lines 295-297: the cleanup of the previous effect run, clearTimeout(timeoutId).
Cleanup(ts, timeoutId) == ts \ {timeoutId}

\* Mutant: the empty-query branch leaves the searching flag set.
EmptyQueryResetKeepsFlag ==
  [results |-> <<>>, isSearching |-> TRUE, progress |-> [scanned |-> 0, total |-> 0]]

\* Lines 152-154: what the effect sets for an empty or whitespace-only query.
EmptyQueryReset ==
  [results |-> <<>>, isSearching |-> FALSE, progress |-> [scanned |-> 0, total |-> 0]]

\* Line 151: !query.trim()
IsBlank(q) == trim(q) = <<>>

\* History: the reads of session s that are in flight were issued before the
\* clearing of the cache that happens now.
InFlightOld(s) ==
  [s EXCEPT !.workers = [w \in Workers |->
                           IF s.workers[w].pc = "await"
                           THEN [s.workers[w] EXCEPT !.old = TRUE]
                           ELSE s.workers[w]]]

\* The effect of lines 149-298 re-runs because a dependency changed: first the
\* previous run's cleanup, then the body with the new query q, vault v and
\* isOpen value open (emit is the history the step leaves in lastEmit,
\* treeChanged tells that the step also cleared the cache).
Effect(q, v, open, emit, treeChanged) ==
  LET cleared == Cleanup(timers, cleanupTimer)
      swept   == [g \in DOMAIN sessions |->
                    IF g \in timers /\ g \notin cleared
                    THEN Retired(sessions[g], "cancelled")
                    ELSE IF treeChanged THEN InFlightOld(sessions[g])
                    ELSE sessions[g]]
      searchId == searchIdRef + 1
  IN
  /\ lastWrite' = NoWrite
  /\ IF ~open
     THEN /\ timers' = cleared
          /\ cleanupTimer' = 0
          /\ sessions' = swept
          /\ lastEmit' = emit
          /\ UNCHANGED <<results, isSearching, progress, searchIdRef>>
     ELSE IF IsBlank(q)
     THEN /\ timers' = cleared
          /\ cleanupTimer' = 0
          /\ sessions' = swept
          /\ results' = EmptyQueryReset.results
          /\ isSearching' = EmptyQueryReset.isSearching
          /\ progress' = EmptyQueryReset.progress
          /\ lastEmit' = NoEmit
          /\ UNCHANGED searchIdRef
     ELSE /\ searchIdRef < GenBound(v)
          /\ searchIdRef' = searchId
          /\ sessions' = Append(swept, NewSession(q, v))
          /\ isSearching' = TRUE
          /\ progress' = [scanned |-> 0, total |-> Len(FilesOf(v))]
          /\ timers' = cleared \cup {searchId}
          /\ cleanupTimer' = searchId
          /\ lastEmit' = emit
          /\ UNCHANGED results

\* ----------------------------------------------------------------- actions
\* Line 340: onChange={e => setQuery(e.target.value)} with a different value.
QueryChange(q) ==
  /\ isOpen
  /\ q # query
  /\ query' = q
  /\ Effect(q, vault, TRUE, lastEmit, FALSE)
  /\ UNCHANGED <<isOpen, vault, selectedIndex, contentCache, staleCached, fuzzyCall, snippetCall>>

\* onClose: Escape, the backdrop, the X button, or opening a result.
CloseModal ==
  /\ isOpen
  /\ isOpen' = FALSE
  /\ Effect(query, vault, FALSE, lastEmit, FALSE)
  /\ UNCHANGED <<query, vault, selectedIndex, contentCache, staleCached, fuzzyCall, snippetCall>>

\* The application shows the modal again; its state was kept.
OpenModal ==
  /\ ~isOpen
  /\ isOpen' = TRUE
  /\ Effect(query, vault, TRUE, lastEmit, FALSE)
  /\ UNCHANGED <<query, vault, selectedIndex, contentCache, staleCached, fuzzyCall, snippetCall>>

\* Lines 136-140: fileStructure changed; the cache is cleared, files is
\* recomputed and the search effect re-runs.
FileTreeChange ==
  /\ vault' = OtherVault(vault)
  /\ contentCache' = << >>
  /\ Effect(query, OtherVault(vault), isOpen,
            IF lastEmit.gen = 0 THEN lastEmit ELSE [lastEmit EXCEPT !.cacheKept = FALSE],
            TRUE)
  /\ staleCached' = {}
  /\ UNCHANGED <<query, isOpen, selectedIndex, fuzzyCall, snippetCall>>

\* Lines 312-319: ArrowDown / ArrowUp on a non-empty result list.
ArrowDown ==
  /\ isOpen
  /\ Len(results) # 0
  /\ selectedIndex < MaxSelected
  /\ selectedIndex' = Min2(selectedIndex + 1, Len(results) - 1)
  /\ lastWrite' = NoWrite
  /\ UNCHANGED <<query, isOpen, vault, results, isSearching, progress, searchIdRef,
                 contentCache, timers, cleanupTimer, sessions, lastEmit,
                 staleCached, fuzzyCall, snippetCall>>

ArrowUp ==
  /\ isOpen
  /\ Len(results) # 0
  /\ selectedIndex' = Max2(selectedIndex - 1, 0)
  /\ lastWrite' = NoWrite
  /\ UNCHANGED <<query, isOpen, vault, results, isSearching, progress, searchIdRef,
                 contentCache, timers, cleanupTimer, sessions, lastEmit,
                 staleCached, fuzzyCall, snippetCall>>

\* Lines 168-293: the debounce timer of session g fires; runSearch starts the
\* 8 workers, each running up to its first await.
TimerFire(g) ==
  /\ g \in timers
  /\ timers' = timers \ {g}
  /\ \E c1 \in {StartWorkers([Context(g) EXCEPT !.s.status = "scanning"],
                              1, g, searchIdRef, contentCache)} :
        \E c2 \in {Complete(c1, g, searchIdRef)} : Commit(g, c2)
  /\ UNCHANGED <<query, isOpen, vault, searchIdRef, contentCache, cleanupTimer,
                 staleCached, fuzzyCall, snippetCall>>

\* The read awaited by worker w of session s can settle now: the reads of
\* vault 7 are taken to settle in the order they were issued, the reads of the
\* other vaults settle in any order.
MaySettle(s, w) ==
  \/ s.vault \notin PoolVaults
  \/ \A v \in Workers : s.workers[v].pc = "await" => s.workers[v].idx >= s.workers[w].idx

\* Lines 236-237: the read awaited by worker w of session g succeeds.
ReadSucceeds(g, w) ==
  /\ g \in DOMAIN sessions
  /\ sessions[g].workers[w].pc = "await"
  /\ MaySettle(sessions[g], w)
  /\ Readable(FilesOf(sessions[g].vault)[sessions[g].workers[w].idx + 1].path)
  /\ UNCHANGED <<query, isOpen, vault, searchIdRef, timers, cleanupTimer, fuzzyCall, snippetCall>>
  /\ LET path    == FilesOf(sessions[g].vault)[sessions[g].workers[w].idx + 1].path
         content == Disk(path)
         cache   == CacheSet(contentCache, path, content)
     IN  /\ contentCache' = cache
         /\ staleCached' = IF sessions[g].workers[w].old
                           THEN staleCached \cup {path}
                           ELSE staleCached \ {path}
         /\ \E c1 \in {AfterRead(Context(g), w, g, searchIdRef, cache, content)} :
               \E c2 \in {Complete(c1, g, searchIdRef)} : Commit(g, c2)

\* Lines 238-240: the read awaited by worker w of session g fails.
ReadFails(g, w) ==
  /\ g \in DOMAIN sessions
  /\ sessions[g].workers[w].pc = "await"
  /\ MaySettle(sessions[g], w)
  /\ UNCHANGED <<query, isOpen, vault, searchIdRef, contentCache, timers, cleanupTimer,
                 staleCached, fuzzyCall, snippetCall>>
  /\ \E c1 \in {AfterReadError(Context(g), w, g, searchIdRef, contentCache)} :
        \E c2 \in {Complete(c1, g, searchIdRef)} : Commit(g, c2)

Init ==
  /\ query = <<>>
  /\ isOpen = FALSE
  /\ vault \in SmallVaults
  /\ results = <<>>
  /\ isSearching = FALSE
  /\ progress = [scanned |-> 0, total |-> 0]
  /\ selectedIndex = 0
  /\ searchIdRef = 0
  /\ contentCache = << >>
  /\ timers = {}
  /\ cleanupTimer = 0
  /\ sessions = << >>
  /\ lastEmit = NoEmit
  /\ lastWrite = NoWrite
  /\ staleCached = {}
  /\ fuzzyCall = NoCall
  /\ snippetCall = NoSnippetCall

Next ==
  \/ \E q \in QueriesOf(vault) : QueryChange(q)
  \/ CloseModal
  \/ OpenModal
  \/ FileTreeChange
  \/ ArrowDown
  \/ ArrowUp
  \/ \E g \in DOMAIN sessions : TimerFire(g)
  \/ \E g \in DOMAIN sessions, w \in Workers : ReadSucceeds(g, w)
  \/ \E g \in DOMAIN sessions, w \in Workers : ReadFails(g, w)

Spec == Init /\ [][Next]_vars

\* The same program started on one of the big vaults.
InitRank ==
  /\ query = <<>>
  /\ isOpen = FALSE
  /\ vault \in BigVaults
  /\ results = <<>>
  /\ isSearching = FALSE
  /\ progress = [scanned |-> 0, total |-> 0]
  /\ selectedIndex = 0
  /\ searchIdRef = 0
  /\ contentCache = << >>
  /\ timers = {}
  /\ cleanupTimer = 0
  /\ sessions = << >>
  /\ lastEmit = NoEmit
  /\ lastWrite = NoWrite
  /\ staleCached = {}
  /\ fuzzyCall = NoCall
  /\ snippetCall = NoSnippetCall

SpecRank == InitRank /\ [][Next]_vars

\* The same program started on one of the vaults 5 and 6.
InitMatch ==
  /\ query = <<>>
  /\ isOpen = FALSE
  /\ vault \in MatchVaults
  /\ results = <<>>
  /\ isSearching = FALSE
  /\ progress = [scanned |-> 0, total |-> 0]
  /\ selectedIndex = 0
  /\ searchIdRef = 0
  /\ contentCache = << >>
  /\ timers = {}
  /\ cleanupTimer = 0
  /\ sessions = << >>
  /\ lastEmit = NoEmit
  /\ lastWrite = NoWrite
  /\ staleCached = {}
  /\ fuzzyCall = NoCall
  /\ snippetCall = NoSnippetCall

SpecMatch == InitMatch /\ [][Next]_vars

\* The same program started on vault 7.
InitPool ==
  /\ query = <<>>
  /\ isOpen = FALSE
  /\ vault \in PoolVaults
  /\ results = <<>>
  /\ isSearching = FALSE
  /\ progress = [scanned |-> 0, total |-> 0]
  /\ selectedIndex = 0
  /\ searchIdRef = 0
  /\ contentCache = << >>
  /\ timers = {}
  /\ cleanupTimer = 0
  /\ sessions = << >>
  /\ lastEmit = NoEmit
  /\ lastWrite = NoWrite
  /\ staleCached = {}
  /\ fuzzyCall = NoCall
  /\ snippetCall = NoSnippetCall

SpecPool == InitPool /\ [][Next]_vars

\* fuzzyScore on its own: every non-empty query and every target of bounded
\* length over FuzzyChars (the worker calls it with a trimmed, hence non-empty,
\* lowercased query and a lowercased file name).
FuzzyChars == {"a", "b", "c"}
StringsUpTo(n) == UNION {[1..k -> FuzzyChars] : k \in 0..n}

InitFuzzy ==
  /\ query = <<>>
  /\ isOpen = FALSE
  /\ vault \in {1}
  /\ results = <<>>
  /\ isSearching = FALSE
  /\ progress = [scanned |-> 0, total |-> 0]
  /\ selectedIndex = 0
  /\ searchIdRef = 0
  /\ contentCache = << >>
  /\ timers = {}
  /\ cleanupTimer = 0
  /\ sessions = << >>
  /\ lastEmit = NoEmit
  /\ lastWrite = NoWrite
  /\ staleCached = {}
  /\ fuzzyCall \in {[query |-> q, target |-> tg, returned |-> FALSE, result |-> 0] :
                      q \in StringsUpTo(MaxFuzzyQuery) \ {<<>>},
                      tg \in StringsUpTo(MaxFuzzyTarget)}
  /\ snippetCall = NoSnippetCall

\* Line 213: fuzzyScore(normalizedQuery, nameLower) is evaluated.
CallFuzzyScore ==
  /\ ~fuzzyCall.returned
  /\ fuzzyCall.query # <<>>
  /\ fuzzyCall' = [fuzzyCall EXCEPT !.returned = TRUE,
                                    !.result = fuzzyScore(fuzzyCall.query, fuzzyCall.target)]
  /\ UNCHANGED <<query, isOpen, vault, results, isSearching, progress, selectedIndex,
                 searchIdRef, contentCache, timers, cleanupTimer, sessions, lastEmit,
                 lastWrite, staleCached, snippetCall>>

NextFuzzy == CallFuzzyScore

SpecFuzzy == InitFuzzy /\ [][NextFuzzy]_vars

InitLive ==
  /\ query = <<>>
  /\ isOpen = FALSE
  /\ vault \in LiveVaults
  /\ results = <<>>
  /\ isSearching = FALSE
  /\ progress = [scanned |-> 0, total |-> 0]
  /\ selectedIndex = 0
  /\ searchIdRef = 0
  /\ contentCache = << >>
  /\ timers = {}
  /\ cleanupTimer = 0
  /\ sessions = << >>
  /\ lastEmit = NoEmit
  /\ lastWrite = NoWrite
  /\ staleCached = {}
  /\ fuzzyCall = NoCall
  /\ snippetCall = NoSnippetCall

\* Some content read of session g settles.
ReadSettles(g) == \E w \in Workers : ReadFails(g, w) \/ ReadSucceeds(g, w)

\* The component where every content read that a session issues is
\* eventually answered, with the content or with an error.
SpecLive == InitLive /\ [][Next]_vars /\ \A g \in 1..MaxGenLive : WF_vars(ReadSettles(g))

\* buildSnippet on its own: the content of every length up to
\* MaxSnippetContent whose characters are the digits in turn, every match
\* position in it and every match length that fits (the worker calls it with
\* the index indexOf found and the length of the query or of a token).
SnippetContent(n) == [i \in 1..n |-> Digits[((i - 1) % 10) + 1]]

InitSnippet ==
  /\ query = <<>>
  /\ isOpen = FALSE
  /\ vault \in {1}
  /\ results = <<>>
  /\ isSearching = FALSE
  /\ progress = [scanned |-> 0, total |-> 0]
  /\ selectedIndex = 0
  /\ searchIdRef = 0
  /\ contentCache = << >>
  /\ timers = {}
  /\ cleanupTimer = 0
  /\ sessions = << >>
  /\ lastEmit = NoEmit
  /\ lastWrite = NoWrite
  /\ staleCached = {}
  /\ fuzzyCall = NoCall
  /\ \E n \in 0..MaxSnippetContent, len \in 0..MaxSnippetMatch :
        \E mi \in 0..(n - len) :
           snippetCall = [content |-> SnippetContent(n), matchIndex |-> mi,
                          matchLength |-> len, returned |-> FALSE, result |-> NoSnippet]

\* Lines 249 and 258: buildSnippet(content, index, length) is evaluated.
CallBuildSnippet ==
  /\ ~snippetCall.returned
  /\ snippetCall' = [snippetCall EXCEPT
                       !.returned = TRUE,
                       !.result = buildSnippet(snippetCall.content, snippetCall.matchIndex,
                                               snippetCall.matchLength)]
  /\ UNCHANGED <<query, isOpen, vault, results, isSearching, progress, selectedIndex,
                 searchIdRef, contentCache, timers, cleanupTimer, sessions, lastEmit,
                 lastWrite, staleCached, fuzzyCall>>

NextSnippet == CallBuildSnippet

SpecSnippet == InitSnippet /\ [][NextSnippet]_vars

TypeOK ==
  /\ searchIdRef \in 0..GenBound(vault)
  /\ Len(sessions) = searchIdRef
  /\ timers \subseteq 1..searchIdRef

\* ------------------------------------------------- vocabulary of the claims
Range(seq) == {seq[i] : i \in 1..Len(seq)}

ZeroProgress == [scanned |-> 0, total |-> 0]

\* q is a subsequence of t.
RECURSIVE IsSubsequence(_, _)
IsSubsequence(q, t) ==
  IF q = <<>> THEN TRUE
  ELSE IF t = <<>> THEN FALSE
  ELSE IF Head(q) = Head(t) THEN IsSubsequence(Tail(q), Tail(t))
  ELSE IsSubsequence(q, Tail(t))

FileAt(v, path) == CHOOSE f \in Range(FilesOf(v)) : f.path = path

\* The three ways of P1 in which a file may match the normalized query q.
MatchesQuery(file, q) ==
  \/ Includes(normalize(file.name), q)
  \/ Includes(normalize(file.path), q)
  \/ IsSubsequence(q, normalize(file.name))
  \/ \A t \in Range(Tokens(q)) : Includes(normalize(Disk(file.path)), t)

\* a may stand before b in a list sorted by score descending, name ascending.
RankedBefore(a, b) ==
  \/ a.score > b.score
  \/ a.score = b.score /\ localeCompare(a.name, b.name) <= 0

\* The buffer of a scan of vault v for q that takes the files one after the
\* other in list order, the reads of the indices in `failing` failing and all
\* other reads returning the file's content.
RECURSIVE ScanInOrder(_, _, _, _, _)
ScanInOrder(v, q, failing, idx, buf) ==
  IF idx >= Len(FilesOf(v)) THEN buf
  ELSE LET file == FilesOf(v)[idx + 1]
           np   == NamePathScore(file, q)
           next ==
             IF Extension(file.name) \in SKIP_EXTENSIONS THEN buf
             ELSE IF namePathCoversAll(file, Tokens(q)) /\ np.score > 0
             THEN Append(buf, FilenameResult(file, np))
             ELSE IF ~shouldSearchContent(q) \/ idx \in failing THEN buf
             ELSE IF ~tokensInContent(Disk(file.path), Tokens(q)) THEN buf
             ELSE Append(buf, ContentResult(file, Disk(file.path), q, Tokens(q), np))
       IN  ScanInOrder(v, q, failing, idx + 1, next)

SameMembers(a, b) == Len(a) = Len(b) /\ Range(a) = Range(b)

InSkipList(file) == Extension(file.name) \in SKIP_EXTENSIONS

NameContains(file, q) == Includes(normalize(file.name), q)
PathContains(file, q) == Includes(normalize(file.path), q)
FuzzyMatches(file, q) == IsSubsequence(q, normalize(file.name))

\* The file can only be found through its content.
ContentOnly(file, q) ==
  ~NameContains(file, q) /\ ~PathContains(file, q) /\ ~FuzzyMatches(file, q)

\* The bucket of the ranking a file falls in for q: 1 name-exact, 2
\* path-exact, 3 fuzzy-name, 4 content-exact, 5 token-only content.
Bucket(file, q) ==
  IF NameContains(file, q) THEN 1
  ELSE IF PathContains(file, q) THEN 2
  ELSE IF FuzzyMatches(file, q) THEN 3
  ELSE IF Includes(normalize(Disk(file.path)), q) THEN 4
  ELSE 5

\* Every token of q occurs in the lowercased content.
ContentHoldsTokens(content, q) ==
  \A tk \in Range(Tokens(q)) : Includes(normalize(content), tk)

\* ------------------------------------------------------------------ claims

\* C1: a session never sets progress, results, the selected index or the
\* searching flag once a later generation has been allocated: whenever code
\* of a session has just set a piece of visible state, that session is the
\* current generation.
C1_Cancellation ==
  lastWrite.fields # {} => lastWrite.gen = searchIdRef

\* C1 witness: code of a superseded session has just run (a read of its
\* worker settled) while visible state shows the newer session's progress.
C1_Witness ==
  /\ lastWrite.gen # 0
  /\ lastWrite.gen < searchIdRef
  /\ lastWrite.fields = {}

\* C2 (as claimed): while the query is empty or whitespace-only, results stay
\* [] and progress stays {0,0}, whatever a session that was scanning does.
C2_RetiredOnEmptyQuery ==
  IsBlank(query) => (results = <<>> /\ progress = ZeroProgress)

\* C3: a change of the query to an empty or whitespace-only string, with the
\* modal open, in that step cancels the pending debounce timer, sets results
\* to [], progress to {0,0}, clears the searching flag, and starts no timer
\* and no session.
C3_EmptyQueryReset ==
  [][ (isOpen /\ query' # query /\ IsBlank(query'))
      => /\ timers' = {}
         /\ results' = <<>>
         /\ progress' = ZeroProgress
         /\ ~isSearching'
         /\ searchIdRef' = searchIdRef
         /\ Len(sessions') = Len(sessions)
         /\ \A g \in DOMAIN sessions :
              sessions[g].status = "debouncing" => sessions'[g].status = "cancelled" ]_vars

\* C3 witness: a whitespace-only query was typed over a query whose debounce
\* timer was pending; the timer is gone and the state is reset.
C3_Witness ==
  /\ isOpen
  /\ query = <<" ">>
  /\ searchIdRef >= 1
  /\ sessions[searchIdRef].status = "cancelled"
  /\ timers = {}
  /\ ~isSearching
  /\ results = <<>>

\* C4: every emitted list is sorted by score descending, ties by name
\* ascending, has at most MAX_RESULTS entries, and consists of the
\* min(MAX_RESULTS, length) first results of the buffer in that order.
C4_OrderingAndTruncation ==
  /\ Len(results) <= MAX_RESULTS
  /\ \A i \in 1..(Len(results) - 1) : RankedBefore(results[i], results[i + 1])
  /\ lastEmit.gen = 0 => results = <<>>
  /\ lastEmit.gen # 0 =>
       /\ Len(results) = Min2(Len(lastEmit.buffer), MAX_RESULTS)
       /\ Range(results) \subseteq Range(lastEmit.buffer)
       /\ \A r \in Range(lastEmit.buffer) \ Range(results) :
            RankedBefore(results[Len(results)], r)

\* C4 witness: a session emitted its list from a buffer of more than
\* MAX_RESULTS results.
C4_Witness ==
  /\ lastEmit.gen # 0
  /\ Len(lastEmit.buffer) > MAX_RESULTS
  /\ Len(results) = MAX_RESULTS

\* C5 (as claimed): with every read succeeding, the emitted list is the one
\* list determined by the files, their contents and the query (the list of
\* the scan that takes the files in order), whatever the interleaving.
C5_DeterministicFinalList ==
  (lastEmit.gen # 0 /\ lastEmit.failed = {})
    => results = SortAndSlice(ScanInOrder(lastEmit.vault, lastEmit.query, {}, 0, <<>>))

\* C6 (as claimed): a session that completes for the query and file list of
\* the previously completed session, no read of either having failed and the
\* cache not having been cleared in between, emits the same list again.
C6_Idempotence ==
  [][ ( /\ lastEmit.gen # 0
        /\ lastEmit'.gen # 0
        /\ lastEmit'.gen # lastEmit.gen
        /\ lastEmit'.query = lastEmit.query
        /\ lastEmit'.vault = lastEmit.vault
        /\ lastEmit.cacheKept
        /\ lastEmit.failed = {}
        /\ lastEmit'.failed = {} )
      => results' = results ]_vars

\* C7: every result of every emitted list belongs to a file whose name or
\* path contains the normalized query, or of whose name the query is a
\* subsequence, or whose content contains every token of the query.
C7_Soundness ==
  /\ lastEmit.gen = 0 => results = <<>>
  /\ lastEmit.gen # 0 =>
       \A i \in 1..Len(results) :
          /\ \E f \in Range(FilesOf(lastEmit.vault)) : f.path = results[i].path
          /\ MatchesQuery(FileAt(lastEmit.vault, results[i].path), lastEmit.query)

\* C7 witness: an emitted list holds a result found through the content.
C7_Witness ==
  /\ lastEmit.gen # 0
  /\ \E i \in 1..Len(results) : results[i].matchType = "content"

\* C8: at most one debounce timer is pending, and it belongs to the latest
\* query; a query change cancels the pending timer, a cancelled session never
\* runs a worker, and a timer that fires is the latest query's.
C8_Debounce ==
  /\ [](Cardinality(timers) <= 1 /\ timers \subseteq {searchIdRef})
  /\ [][ \A g \in DOMAIN sessions :
           /\ (query' # query /\ g \in timers) => sessions'[g].status = "cancelled"
           /\ sessions[g].status = "cancelled" => sessions'[g] = sessions[g]
           /\ (sessions[g].status = "debouncing"
               /\ sessions'[g].status \notin {"debouncing", "cancelled"})
              => (g = searchIdRef /\ query' = query) ]_vars

\* C8 witness: the first query was replaced before its timer fired and only
\* the second query's scan ran and completed.
C8_Witness ==
  /\ isOpen
  /\ searchIdRef = 2
  /\ sessions[1].status = "cancelled"
  /\ sessions[2].status = "completed"
  /\ lastEmit.gen = 2

\* C9: a session emits at most once, only when every worker has returned; a
\* session that is current when its last worker returns emits in that step,
\* clearing the searching flag, and emits [] when no file matches the query.
C9_CompletionOnce ==
  [][ \A g \in DOMAIN sessions :
        /\ sessions'[g].emitted <= 1
        /\ sessions'[g].emitted >= sessions[g].emitted
        /\ sessions'[g].emitted # sessions[g].emitted
           => /\ lastEmit'.gen = g
              /\ lastEmit'.unreturned = 0
              /\ sessions'[g].status = "completed"
              /\ results' = SortAndSlice(lastEmit'.buffer)
              /\ ~isSearching'
              /\ (\A f \in Range(FilesOf(lastEmit'.vault)) :
                     ~MatchesQuery(f, lastEmit'.query)) => results' = <<>>
        /\ (sessions[g].status = "scanning" /\ sessions'[g].status # "scanning")
           => /\ sessions'[g].status \in {"completed", "stale"}
              /\ g = searchIdRef => sessions'[g].status = "completed"
        /\ sessions'[g].status = "completed" => sessions'[g].emitted = 1 ]_vars

\* C9 witness: a session whose query matches no file has completed with [].
C9_Witness ==
  /\ lastEmit.gen # 0
  /\ lastWrite.gen = lastEmit.gen
  /\ sessions[lastEmit.gen].emitted = 1
  /\ \A f \in Range(FilesOf(lastEmit.vault)) : ~MatchesQuery(f, lastEmit.query)
  /\ results = <<>>
  /\ ~isSearching

\* C10: a failed read does not stop its worker or its session and raises no
\* error; the emitted list is made of the results the session's files yield
\* when each file whose read failed is taken to have no matching content.
C10_ReadFailureIsolated ==
  /\ \A g \in DOMAIN sessions :
        /\ sessions[g].status # "rejected"
        /\ ~sessions[g].rejected
        /\ \A w \in Workers : sessions[g].workers[w].pc \in {"idle", "await", "done"}
        /\ sessions[g].status = "scanning"
           => \E w \in Workers : sessions[g].workers[w].pc = "await"
  /\ lastEmit.gen # 0 =>
        /\ results = SortAndSlice(lastEmit.buffer)
        /\ SameMembers(lastEmit.buffer,
                       ScanInOrder(lastEmit.vault, lastEmit.query, lastEmit.failed, 0, <<>>))

\* C10 witness: a session in which a read failed has emitted the result of
\* its other file.
C10_Witness ==
  /\ lastEmit.gen # 0
  /\ lastEmit.failed # {}
  /\ results # <<>>

\* C11: for every non-empty query and every target, fuzzyScore returns null
\* exactly when the query is not a subsequence of the target, and a strictly
\* positive number otherwise.
C11_FuzzyCorrectness ==
  fuzzyCall.returned =>
    /\ (fuzzyCall.result = Null) <=> ~IsSubsequence(fuzzyCall.query, fuzzyCall.target)
    /\ fuzzyCall.result # Null => fuzzyCall.result > 0

\* C11 witness: fuzzyScore returned a score for a query whose characters
\* stand apart in the target.
C11_Witness ==
  /\ fuzzyCall.returned
  /\ Len(fuzzyCall.query) >= 2
  /\ IsSubsequence(fuzzyCall.query, fuzzyCall.target)
  /\ ~Includes(fuzzyCall.target, fuzzyCall.query)
  /\ fuzzyCall.result > 0

\* C12: in a completed session every file outside the skip-list whose
\* lowercased name contains the normalized query has a result of matchType
\* name in the buffer, and in the emitted list that result stands before every
\* result of a file that matches through its content only.
C12_NameMatchRanksFirst ==
  lastEmit.gen # 0 =>
    \A f \in Range(FilesOf(lastEmit.vault)) :
       (~InSkipList(f) /\ NameContains(f, lastEmit.query)) =>
          /\ \E r \in Range(lastEmit.buffer) : r.path = f.path /\ r.matchType = "name"
          /\ \A j \in 1..Len(results) :
                ContentOnly(FileAt(lastEmit.vault, results[j].path), lastEmit.query)
                => \E i \in 1..(j - 1) : results[i].path = f.path

\* C12 witness: an emitted list starts with a file whose name contains the
\* query and also holds a file found through its content only.
C12_Witness ==
  /\ lastEmit.gen # 0
  /\ Len(results) >= 2
  /\ NameContains(FileAt(lastEmit.vault, results[1].path), lastEmit.query)
  /\ \E j \in 2..Len(results) :
        ContentOnly(FileAt(lastEmit.vault, results[j].path), lastEmit.query)

\* C13: in a completed session whose normalized query has at least 2
\* characters, a file outside the skip-list that name and path neither contain
\* nor fuzzy-match, whose read did not fail and whose content holds every
\* token, has a result of matchType content in the buffer, with a snippet
\* whose text contains a token case-insensitively.
C13_ContentMatch ==
  (lastEmit.gen # 0 /\ Len(lastEmit.query) >= CONTENT_SEARCH_MIN_CHARS) =>
    \A idx \in 0..(Len(FilesOf(lastEmit.vault)) - 1) :
       LET f == FilesOf(lastEmit.vault)[idx + 1]
       IN  ( /\ ~InSkipList(f)
             /\ ContentOnly(f, lastEmit.query)
             /\ idx \notin lastEmit.failed
             /\ ContentHoldsTokens(Disk(f.path), lastEmit.query) )
           => \E r \in Range(lastEmit.buffer) :
                 /\ r.path = f.path
                 /\ r.matchType = "content"
                 /\ \E i \in 1..Len(r.matches) :
                       \E tk \in Range(Tokens(lastEmit.query)) :
                          Includes(normalize(r.matches[i].text), tk)

\* C13 witness: a completed session found a file through its content alone
\* and gave it a snippet for the whole query and one for the token.
C13_Witness ==
  /\ lastEmit.gen # 0
  /\ \E r \in Range(lastEmit.buffer) :
        /\ ContentOnly(FileAt(lastEmit.vault, r.path), lastEmit.query)
        /\ r.matchType = "content"
        /\ Len(r.matches) >= 2

\* C14 (as claimed): a file outside the skip-list whose name or path contains
\* the query, or whose name fuzzy-matches it, gets a result of matchType name
\* or path that carries no content snippet, and no content read or cache
\* lookup is made for it.
C14_NamePathShortCircuit ==
  /\ \A rd \in lastWrite.reads \cup lastWrite.hits : ContentOnly(rd.file, rd.query)
  /\ lastEmit.gen # 0 =>
       \A f \in Range(FilesOf(lastEmit.vault)) :
          (~InSkipList(f) /\ ~ContentOnly(f, lastEmit.query)) =>
             \E r \in Range(lastEmit.buffer) :
                /\ r.path = f.path
                /\ r.matchType \in {"name", "path"}
                /\ \A i \in 1..Len(r.matches) : r.matches[i].highlights = <<>>

\* C15 (as claimed): a result that carries snippets of the file's content has
\* matchType content and the score the content alone gives.
C15_ContentPathResult ==
  lastEmit.gen # 0 =>
    \A r \in Range(lastEmit.buffer) :
       (\E i \in 1..Len(r.matches) : r.matches[i].highlights # <<>>) =>
          /\ r.matchType = "content"
          /\ r.score = ContentResult(FileAt(lastEmit.vault, r.path), Disk(r.path),
                                     lastEmit.query, Tokens(lastEmit.query),
                                     [score |-> 0, matchType |-> "content"]).score

\* C16 (as claimed): of two results of a session in different buckets the one
\* in the higher bucket has the strictly higher score; a fuzzy-name result
\* stays below the lowest path-exact score (700 - 200) and a content result
\* stays at or below the lowest fuzzy-name bound (400).
C16_BucketOrdering ==
  lastEmit.gen # 0 =>
    /\ \A a, b \in Range(lastEmit.buffer) :
          Bucket(FileAt(lastEmit.vault, a.path), lastEmit.query)
            < Bucket(FileAt(lastEmit.vault, b.path), lastEmit.query)
          => a.score > b.score
    /\ \A r \in Range(lastEmit.buffer) :
          /\ Bucket(FileAt(lastEmit.vault, r.path), lastEmit.query) = 3
             => r.score < ScoreScale * (700 - 200)
          /\ Bucket(FileAt(lastEmit.vault, r.path), lastEmit.query) >= 4
             => r.score <= ScoreScale * 400

\* C17 (as claimed): a content result of a file whose content holds every
\* token but not the whole query scores 50, plus 30 for each matched token
\* beyond the first, at most 3 tokens counting.
C17_TokenOnlyScore ==
  lastEmit.gen # 0 =>
    \A r \in Range(lastEmit.buffer) :
       ( /\ ContentOnly(FileAt(lastEmit.vault, r.path), lastEmit.query)
         /\ ~Includes(normalize(Disk(r.path)), lastEmit.query) )
       => r.score = ScoreScale * (50 + 30 * (Min2(3, Len(Tokens(lastEmit.query))) - 1))

\* C18 (as claimed): no read is issued for a path whose content the cache
\* holds, whatever the content.
C18_CacheHit ==
  \A rd \in lastWrite.reads : ~rd.cached

\* C19 (as claimed): the cache never holds content of a read that was issued
\* before the latest clearing of the cache.
C19_FullInvalidation ==
  staleCached = {}

\* C20 (as claimed): the generation counter changes only in a step in which
\* a debounce timer fires (a pending timer goes and its session starts).
C20_GenerationOnFire ==
  [][ searchIdRef' # searchIdRef
      => \E g \in timers :
            /\ g \notin timers'
            /\ sessions'[g].status \notin {"debouncing", "cancelled"} ]_vars


\* The workers of session s that await a content read.
Awaiting(s) == {w \in Workers : s.workers[w].pc = "await"}

\* The indices below the length of the file list that session s has claimed.
ClaimedFiles(s) ==
  {i \in 1..Len(s.claimed) : s.claimed[i] < Len(FilesOf(s.vault))}

\* C21: superseded workers stop at the next checkpoint.  In every step in
\* which code of a session runs whose generation is no longer the current one,
\* the session issues no content read, takes no content from the cache and
\* counts no further file as scanned; the one worker whose read settled
\* returns, adding at most the result of the file it was reading, and every
\* other worker stays where it was.
C21_Step ==
  \A g \in DOMAIN sessions :
    (lastWrite'.gen = g /\ g # searchIdRef /\ sessions[g].status = "scanning") =>
      /\ lastWrite'.reads = {}
      /\ lastWrite'.hits = {}
      /\ lastWrite'.fields = {}
      /\ \/ sessions'[g].status = "stale"
         \/ /\ sessions'[g].status = "scanning"
            /\ sessions'[g].scanned = sessions[g].scanned
            /\ Len(sessions'[g].resultsBuffer) <= Len(sessions[g].resultsBuffer) + 1
            /\ \E w \in Awaiting(sessions[g]) :
                  /\ sessions'[g].workers[w].pc = "done"
                  /\ \A v \in Workers \ {w} :
                        sessions'[g].workers[v] = sessions[g].workers[v]

C21_SupersededWorkersStop == [][C21_Step]_vars

\* A worker of a superseded session returned although it had claimed an index
\* of the file list that nobody has processed.
C21_Witness ==
  \E g \in DOMAIN sessions :
    /\ g # searchIdRef
    /\ lastWrite.gen = g
    /\ sessions[g].status = "scanning"
    /\ Cardinality(ClaimedFiles(sessions[g])) > sessions[g].scanned
    /\ \E w \in Workers : sessions[g].workers[w].pc = "done"

\* No value occurs twice in the sequence.
NoDuplicates(seq) == \A i, j \in 1..Len(seq) : seq[i] = seq[j] => i = j

\* C22: exclusive claims.  Within a session no index is claimed twice and no
\* file has two results in the buffer; the session that emitted the final
\* list as the current generation claimed every index of its file list, each
\* exactly once.
C22_ExclusiveClaims ==
  /\ \A g \in DOMAIN sessions :
        /\ NoDuplicates(sessions[g].claimed)
        /\ NoDuplicates([i \in 1..Len(sessions[g].resultsBuffer) |->
                           sessions[g].resultsBuffer[i].path])
        /\ sessions[g].scanned <= Cardinality(ClaimedFiles(sessions[g]))
  /\ lastEmit.gen # 0 =>
        /\ NoDuplicates(lastEmit.claimed)
        /\ \A idx \in 0..(Len(FilesOf(lastEmit.vault)) - 1) :
              \E i \in 1..Len(lastEmit.claimed) : lastEmit.claimed[i] = idx
        /\ NoDuplicates([i \in 1..Len(lastEmit.buffer) |-> lastEmit.buffer[i].path])

\* A session of vault 7 completed: its eight workers shared the ten indices of
\* the list, and each claimed one index past the end before it returned.
C22_Witness ==
  /\ lastEmit.gen # 0
  /\ lastEmit.vault \in PoolVaults
  /\ Len(lastEmit.claimed) = Len(FilesOf(lastEmit.vault)) + SEARCH_CONCURRENCY

\* C23: bounded parallelism.  Every session runs exactly 8 workers, and at
\* most 8 content reads it issued are in flight: each worker awaits at most
\* one read, and one step issues at most 8 reads.
C23_BoundedParallelism ==
  /\ \A g \in DOMAIN sessions :
        /\ DOMAIN sessions[g].workers = 1..8
        /\ Cardinality(Awaiting(sessions[g])) <= 8
        /\ NoDuplicates([w \in 1..8 |->
                           IF sessions[g].workers[w].pc = "await"
                           THEN sessions[g].workers[w].idx ELSE 0 - w])
  /\ Cardinality(lastWrite.reads) <= 8

\* Eight reads of a session are in flight while a file that needs a read is
\* still unclaimed.
C23_Witness ==
  \E g \in DOMAIN sessions :
    /\ sessions[g].status = "scanning"
    /\ Cardinality(Awaiting(sessions[g])) = 8
    /\ sessions[g].nextIndex < Len(FilesOf(sessions[g].vault))

\* Session g has just reached Completed: it emitted the final list, cleared
\* the searching flag and set the progress to {total, total}.
Completed(g) ==
  /\ g \in DOMAIN sessions
  /\ sessions[g].status = "completed"
  /\ lastWrite.gen = g
  /\ lastWrite.fields = {"results", "selectedIndex", "isSearching", "progress"}
  /\ lastEmit.gen = g
  /\ results = SortAndSlice(lastEmit.buffer)
  /\ ~isSearching
  /\ progress = [scanned |-> Len(FilesOf(lastEmit.vault)),
                 total   |-> Len(FilesOf(lastEmit.vault))]

\* C24: completion liveness.  When every content read is eventually answered,
\* a session whose timer has fired either stops being the current generation
\* or reaches Completed.
C24_CompletionLiveness ==
  \A g \in 1..MaxGenLive :
    (g \in DOMAIN sessions /\ sessions[g].status = "scanning")
      ~> (searchIdRef # g \/ Completed(g))

\* A session that had to wait for a content read, and whose read failed, has
\* reached Completed as the current generation.
C24_Witness ==
  /\ searchIdRef \in DOMAIN sessions
  /\ Completed(searchIdRef)
  /\ lastWrite.failures # {}

\* The content read of `file` for the normalized query q is allowed while the
\* session's buffer is buf: the file is not in the skip-list, the buffer holds
\* no result for it, and q has at least 2 characters.
ReadAllowed(file, q, buf) ==
  /\ ~InSkipList(file)
  /\ \A i \in 1..Len(buf) : buf[i].path # file.path
  /\ Len(q) >= 2

\* C25: guard of the content read.  Every read a step issues, and every read
\* in flight, is for a file outside the skip-list for which the session has
\* emitted no result, under a normalized query of at least 2 characters.
C25_ContentReadGuard ==
  /\ \A rd \in lastWrite.reads :
        /\ lastWrite.gen \in DOMAIN sessions
        /\ ReadAllowed(rd.file, rd.query, sessions[lastWrite.gen].resultsBuffer)
        /\ rd.query = sessions[lastWrite.gen].query
  /\ \A g \in DOMAIN sessions : \A w \in Awaiting(sessions[g]) :
        ReadAllowed(FilesOf(sessions[g].vault)[sessions[g].workers[w].idx + 1],
                    sessions[g].query, sessions[g].resultsBuffer)

\* A step issued a read in a vault that also holds a skip-list file, which the
\* session has scanned without reading it.
C25_Witness ==
  /\ lastWrite.reads # {}
  /\ lastWrite.gen \in DOMAIN sessions
  /\ \E f \in Range(FilesOf(sessions[lastWrite.gen].vault)) : InSkipList(f)
  /\ sessions[lastWrite.gen].scanned = Len(FilesOf(sessions[lastWrite.gen].vault))

\* The tuples the workers of a session have emitted once n files of a list of
\* `total` files are scanned: one for every multiple of 10 up to n.
WorkerTuples(n, total) ==
  [k \in 1..(n \div 10) |-> [scanned |-> 10 * k, total |-> total]]

StrictlyIncreasing(log) ==
  \A i, j \in 1..Len(log) : i < j => log[i].scanned < log[j].scanned

NonDecreasing(log) ==
  \A i, j \in 1..Len(log) : i < j => log[i].scanned <= log[j].scanned

\* The progress tuples of the sessions that are scanning and of the session
\* that emitted the final list are those of the description: one per multiple
\* of 10 scanned, then the completion tuple {total, total}; each has the
\* length of the session's file list as total and 0 <= scanned <= total.
ProgressTuples ==
  /\ \A g \in DOMAIN sessions :
        sessions[g].status = "scanning" =>
          /\ sessions[g].progressLog =
               WorkerTuples(sessions[g].scanned, Len(FilesOf(sessions[g].vault)))
          /\ sessions[g].scanned <= Len(FilesOf(sessions[g].vault))
          /\ StrictlyIncreasing(sessions[g].progressLog)
  /\ lastEmit.gen # 0 =>
        LET total == Len(FilesOf(lastEmit.vault))
        IN  /\ lastEmit.progressLog =
                 Append(WorkerTuples(total, total), [scanned |-> total, total |-> total])
            /\ \A i \in 1..Len(lastEmit.progressLog) :
                  /\ lastEmit.progressLog[i].total = total
                  /\ lastEmit.progressLog[i].scanned \in 0..total

\* C26 as stated: the scanned values a session emits are strictly increasing
\* up to the completion tuple.
C26_ProgressStrictlyIncreasing ==
  /\ ProgressTuples
  /\ lastEmit.gen # 0 => StrictlyIncreasing(lastEmit.progressLog)

\* C26, amended: the scanned values a session emits never decrease and those
\* emitted by its workers are strictly increasing; the completion tuple
\* repeats the last worker tuple exactly when the length of the file list is
\* a positive multiple of 10.
C26_ProgressReporting ==
  /\ ProgressTuples
  /\ lastEmit.gen # 0 =>
        LET log   == lastEmit.progressLog
            total == Len(FilesOf(lastEmit.vault))
        IN  /\ NonDecreasing(log)
            /\ StrictlyIncreasing(SubSeq(log, 1, Len(log) - 1))
            /\ StrictlyIncreasing(log) <=> (total = 0 \/ total % 10 # 0)

\* A session over the ten files of vault 7 completed: a worker had emitted
\* {10, 10} and the completion emitted {10, 10} again.
C26_Witness ==
  /\ lastEmit.gen # 0
  /\ Len(lastEmit.progressLog) = 2
  /\ lastEmit.progressLog[1] = lastEmit.progressLog[2]
  /\ progress = lastEmit.progressLog[2]

\* Every result of the list has at least 1 and at most 3 snippets.
SnippetsBounded(list) ==
  \A i \in 1..Len(list) : Len(list[i].matches) \in 1..3

\* C27: snippet bound.  Every result in a session's buffer, in the emitted
\* list and in the buffer the emitted list was made of has at least 1 and at
\* most 3 snippets.
C27_SnippetBound ==
  /\ \A g \in DOMAIN sessions : SnippetsBounded(sessions[g].resultsBuffer)
  /\ SnippetsBounded(results)
  /\ SnippetsBounded(lastEmit.buffer)

\* The emitted list holds a content result for a query of three tokens that
\* the content holds as a whole: the snippet of the whole query and those of
\* the first two tokens, the third token's snippet being cut off.
C27_Witness ==
  /\ Len(Tokens(lastEmit.query)) = 3
  /\ \E i \in 1..Len(results) :
        /\ results[i].matchType = "content"
        /\ Includes(normalize(Disk(results[i].path)), lastEmit.query)
        /\ Len(results[i].matches) = 3

\* The ellipsis marker.
Ellipsis == <<".", ".", ".">>

\* The window of the description around the match: from 40 characters before
\* the match to 40 characters after it, clipped to the content.
WindowStart(matchIndex) == Max2(0, matchIndex - 40)
WindowEnd(content, matchIndex, matchLen) == Min2(Len(content), matchIndex + matchLen + 40)

\* C28: snippet extraction.  buildSnippet returns the clipped window, led by
\* an ellipsis exactly when the window does not start at the start of the
\* content and followed by one exactly when it does not end at its end, with
\* one highlight range that lies inside the text and selects the characters
\* content[matchIndex, matchIndex + matchLen).
C28_SnippetExtraction ==
  snippetCall.returned =>
    LET content == snippetCall.content
        mi      == snippetCall.matchIndex
        ml      == snippetCall.matchLength
        r       == snippetCall.result
        start   == WindowStart(mi)
        end     == WindowEnd(content, mi, ml)
    IN  /\ r.text = (IF start > 0 THEN Ellipsis ELSE <<>>)
                     \o SubSeq(content, start + 1, end)
                     \o (IF end < Len(content) THEN Ellipsis ELSE <<>>)
        /\ Len(r.highlights) = 1
        /\ 0 <= r.highlights[1].start
        /\ r.highlights[1].start <= r.highlights[1].end
        /\ r.highlights[1].end <= Len(r.text)
        /\ SubSeq(r.text, r.highlights[1].start + 1, r.highlights[1].end)
             = SubSeq(content, mi + 1, mi + ml)

\* buildSnippet returned for a match that lies more than 40 characters from
\* both ends of the content: the text has both ellipses.
C28_Witness ==
  /\ snippetCall.returned
  /\ snippetCall.matchLength > 0
  /\ snippetCall.matchIndex > 40
  /\ snippetCall.matchIndex + snippetCall.matchLength + 40 < Len(snippetCall.content)
  /\ SubSeq(snippetCall.result.text, 1, 3) = Ellipsis

\* The indices of its file list that session g claims in this step.
NewlyClaimed(g) ==
  {sessions'[g].claimed[i] : i \in (Len(sessions[g].claimed) + 1)..Len(sessions'[g].claimed)}
    \cap (0..(Len(FilesOf(sessions[g].vault)) - 1))

\* C29: no retry, no negative caching.  A step in which a read fails leaves
\* the cache as it was and issues no read for the file again, and the session
\* never again awaits a read of an index whose read failed.  A failure is
\* remembered nowhere: whenever the current session takes up a file that may
\* be read and whose content the cache does not hold, it issues a read.
C29_Step ==
  /\ lastWrite'.failures # {} =>
        /\ contentCache' = contentCache
        /\ \A f \in lastWrite'.failures : \A rd \in lastWrite'.reads : rd.file # f.file
  /\ \A g \in DOMAIN sessions :
        /\ \A w \in Awaiting(sessions'[g]) :
              sessions'[g].workers[w].idx \notin sessions'[g].failed
        /\ (lastWrite'.gen = g /\ g = searchIdRef /\ sessions'[g].status = "scanning") =>
              \A idx \in NewlyClaimed(g) :
                LET f == FilesOf(sessions[g].vault)[idx + 1]
                IN  (/\ ReadAllowed(f, sessions'[g].query, sessions'[g].resultsBuffer)
                     /\ CacheMiss(contentCache', f.path)
                     /\ idx \notin sessions'[g].failed)
                    => \E rd \in lastWrite'.reads : rd.file = f

C29_NoRetryNoNegativeCaching == [][C29_Step]_vars

\* A session issues a read for a file whose read failed in the session that
\* emitted the list now shown.
C29_Witness ==
  /\ lastEmit.gen # 0
  /\ lastWrite.gen > lastEmit.gen
  /\ lastWrite.gen \in DOMAIN sessions
  /\ sessions[lastWrite.gen].vault = lastEmit.vault
  /\ \E idx \in lastEmit.failed : \E rd \in lastWrite.reads :
        /\ rd.file = FilesOf(lastEmit.vault)[idx + 1]
        /\ ~rd.cached

\* The last dot-separated segment of the name, lowercased.
LastDotSegment(name) ==
  LET dots == {i \in 1..Len(name) : name[i] = "."}
      last == IF dots = {} THEN 0 ELSE CHOOSE i \in dots : \A j \in dots : j <= i
  IN  normalize(SubSeq(name, last + 1, Len(name)))

SkipListed(file) == LastDotSegment(file.name) \in SKIP_EXTENSIONS

\* The list holds no result for a file of the skip-list.
NoSkipListed(list, v) ==
  \A i \in 1..Len(list) : \A f \in Range(FilesOf(v)) :
     f.path = list[i].path => ~SkipListed(f)

\* C30: skip-list files are excluded entirely and still counted.  No buffer
\* and no emitted list holds a result for a file of the skip-list; the
\* current session has counted as scanned every file it has claimed, those of
\* the skip-list included, and the completion reports all of them.
C30_SkipListExcluded ==
  /\ \A g \in DOMAIN sessions :
        /\ NoSkipListed(sessions[g].resultsBuffer, sessions[g].vault)
        /\ (sessions[g].status = "scanning" /\ g = searchIdRef) =>
              sessions[g].scanned = Cardinality(ClaimedFiles(sessions[g]))
  /\ lastEmit.gen # 0 =>
        /\ NoSkipListed(lastEmit.buffer, lastEmit.vault)
        /\ NoSkipListed(results, lastEmit.vault)
        /\ lastWrite.gen = lastEmit.gen /\ "progress" \in lastWrite.fields =>
              progress.scanned = Len(FilesOf(lastEmit.vault))

\* A session completed whose query the path of a skip-list file contains: the
\* file is not in the list, and the progress counts it.
C30_Witness ==
  /\ lastEmit.gen # 0
  /\ lastWrite.gen = lastEmit.gen
  /\ \E f \in Range(FilesOf(lastEmit.vault)) :
        /\ SkipListed(f)
        /\ PathContains(f, lastEmit.query)
        /\ \A i \in 1..Len(results) : results[i].path # f.path
  /\ results # <<>>
  /\ progress.scanned = Len(FilesOf(lastEmit.vault))
====
